---- MODULE Spec2Model ----
(***************************************************************************)
(* Housekeeping record store and retrieval engine of ex2_services          *)
(* (Services/source/housekeeping/housekeeping_service.c).                  *)
(*                                                                         *)
(* The store is the set of files tempHKdata<slot>.TMP, the write cursor    *)
(* current_file, the capacity MAX_FILES and the in-memory timestamp array. *)
(* Every action is one call of a public function of the file, run from its *)
(* first line to its return.  The inputs of a call that the code does not  *)
(* decide (the wall clock, the outcome of malloc/realloc/fopen/fwrite/     *)
(* remove/csp_send, the value of a read the C standard leaves undefined)   *)
(* are drawn from small sets.                                              *)
(***************************************************************************)
EXTENDS Integers, Sequences, FiniteSets, TLC

\* ------------------------------------------------------------------ bounds
\* Largest capacity a SET_MAX_FILES request carries in the model; the
\* service starts from one of the capacities 1..MaxCap.
MaxCap == 3
\* Number of 30 s collection periods after the first one.
MaxTicks == 3
\* Number of calls in a run during which the allocator or the file system
\* fails (malloc, realloc, fopen, fwrite, remove).
MaxFaults == 1
\* Number of GET_HK requests in a run.  A page leaves the store as it found
\* it, so a second page of a run meets a state a first page can meet.
MaxPages == 1
\* First wall-clock reading, in seconds.
StartTime == 100
\* How far below the capacity the cursor of a large store starts.
CursorWindow == 40
\* Number of populate_and_store_hk_data calls in a run of the concurrent
\* callers.
MaxConcWrites == 2

\* -------------------------------------------------------- program constants
\* "How many seconds timestamps need to be within"
threshold == 15
\* "Currently assumes 30 second hk intervals"
Cadence == 30
\* uint16_t arithmetic
TwoTo16 == 65536
U16(x) == x % TwoTo16

SUCCESS == "SUCCESS"
FAILURE == "FAILURE"

VARIABLES
  MAX_FILES,                \* uint16_t MAX_FILES
  current_file,             \* uint16_t current_file, 1 indexed
  timestamps,               \* uint32_t *timestamps: [null, cell]
  hk_timestamp_array_size,  \* number of items of the array
  files,                    \* the file system: slot -> record on disk
  f_count_lock,             \* "free" or "held"
  now,                      \* last reading of time(NULL)
  halted,                   \* the task took a fault
  faults,                   \* calls so far in which the environment failed
  pages,                    \* GET_HK requests so far
  resized,                  \* set_max_files has changed the store
  last,                     \* the last call: its arguments, outcome, output
  pc,                       \* concurrent callers: the line each has reached
  loc,                      \* concurrent callers: their local variables
  sem                       \* what xSemaphoreTake/Give do with the lock handle

store == <<MAX_FILES, current_file, timestamps, hk_timestamp_array_size, files>>
vars == <<MAX_FILES, current_file, timestamps, hk_timestamp_array_size, files,
          f_count_lock, now, halted, faults, pages, resized, last, pc, loc, sem>>
\* The state of the callers that run concurrently (see the second half of
\* the module); a call that runs alone leaves it as it is.
tasks == <<pc, loc, sem>>

\* The environment may fail in a call only while the run's budget lasts.
Fault(failed) ==
  /\ failed => faults < MaxFaults
  /\ faults' = IF failed THEN faults + 1 ELSE faults

Slots == 1..MaxCap
MaxClock == StartTime + MaxTicks * Cadence

\* The subsystem payload collect_hk_from_devices delivers in the collection
\* cycle at time t: opaque to the store, and different in every cycle.
Snapshot(t) == (t - StartTime) \div Cadence + 1

\* A file that does not exist, and the record a file holds.
NoFile == [exists |-> FALSE, ts |-> 0, pos |-> 0, payload |-> 0, torn |-> FALSE,
           order |-> "host"]
Record(t, p, s) == [exists |-> TRUE, ts |-> t, pos |-> p, payload |-> s,
                    torn |-> FALSE, order |-> "host"]
\* What a file holds after fwrite failed part-way, and what a buffer holds
\* that was never filled from a complete file.
Garbage == [exists |-> TRUE, ts |-> 0, pos |-> 0, payload |-> 0, torn |-> TRUE,
            order |-> "host"]

NoCall == [op |-> "none", a1 |-> 0, a2 |-> 0, a3 |-> 0, ret |-> "NONE",
           sat |-> "NONE", status |-> 0, env |-> "ok", slot |-> 0,
           rec |-> NoFile, out |-> <<>>, ids |-> <<>>, rmfail |-> {},
           ub |-> "none", why |-> "none", pkt |-> <<>>, host |-> "none"]

\* The callers of the public functions when they run concurrently: two
\* tasks that call populate_and_store_hk_data, one that calls set_max_files
\* and one that calls fetch_historic_hk_and_transmit.
Writers == {"w1", "w2"}
Tasks == Writers \cup {"r", "f"}
\* The local variables of a call in progress.
NoLocals == [t |-> 0, slot |-> 0, cap |-> 0, old_max |-> 0, new_max |-> 0,
             i |-> 0, limit |-> 0, locked_before_id |-> 0, locked_max |-> 0,
             ids |-> <<>>]

\* ------------------------------------------------------- timestamp index
\* The value a read of timestamps[i] yields.  The cells the handler has
\* initialised are 1..hk_timestamp_array_size; a read of cell 0 (never
\* written), of a negative position or of a position past the array is
\* undefined and yields u, a value the caller draws from UndefVals.
ReadTs(i, u) ==
  IF i \in 1..hk_timestamp_array_size THEN timestamps.cell[i] ELSE u

UndefVals(t) == {0, t, MaxClock + 2 * Cadence}

\* (uint32_t)(a - b) <= threshold.  Every uint32_t of the model is below
\* 2^31, so for a < b the difference wraps to a - b + 2^32, which is above
\* 2^31 and so above the threshold.
Within(a, b) == a >= b /\ a - b <= threshold

\* while (left < right) { middle = (left + right) / 2; ... }
RECURSIVE BinarySearch(_, _, _, _)
BinarySearch(left, right, timestamp, u) ==
  IF left < right
  THEN LET middle == U16((left + right) \div 2)
       IN IF ReadTs(middle - (current_file - 1), u) < timestamp
          THEN BinarySearch(U16(middle + 1), right, timestamp, u)
          ELSE BinarySearch(left, middle, timestamp, u)
  ELSE left

\* get_file_id_from_timestamp without the test "left is max index.  bigger
\* value than at max": at the last position only timestamps[p] - timestamp
\* is compared with the threshold.
get_file_id_no_max_edge(timestamp, u) ==
  IF timestamps.null THEN 0
  ELSE IF ReadTs(current_file, u) = 0 /\ current_file = 1 THEN 0
  ELSE
    LET unwrapped == ReadTs(current_file, u) = 0
        left0  == IF unwrapped THEN 1 ELSE current_file
        right0 == IF unwrapped THEN U16(current_file - 1)
                  ELSE U16(current_file + hk_timestamp_array_size - 1)
        left   == BinarySearch(left0, right0, timestamp, u)
        true_position == U16(left - (current_file - 1))
    IN IF true_position > 1
       THEN IF Within(timestamp, ReadTs(true_position - 1, u))
            THEN U16(true_position - 1)
            ELSE IF Within(ReadTs(true_position, u), timestamp)
                 THEN true_position ELSE 0
       ELSE IF Within(ReadTs(true_position, u), timestamp)
            THEN true_position ELSE 0

\* uint16_t get_file_id_from_timestamp(uint32_t timestamp)
get_file_id_from_timestamp(timestamp, u) ==
  IF timestamps.null THEN 0
  ELSE IF ReadTs(current_file, u) = 0 /\ current_file = 1 THEN 0
  ELSE
    LET unwrapped == ReadTs(current_file, u) = 0
        left0  == IF unwrapped THEN 1 ELSE current_file
        right0 == IF unwrapped THEN U16(current_file - 1)
                  ELSE U16(current_file + hk_timestamp_array_size - 1)
        left   == BinarySearch(left0, right0, timestamp, u)
        true_position == U16(left - (current_file - 1))
    IN IF true_position > 1
       THEN IF Within(timestamp, ReadTs(true_position - 1, u))
            THEN U16(true_position - 1)
            ELSE IF true_position # hk_timestamp_array_size
                 THEN IF Within(ReadTs(true_position, u), timestamp)
                      THEN true_position ELSE 0
                 ELSE IF /\ timestamp > ReadTs(true_position, u)
                         /\ Within(timestamp, ReadTs(true_position, u))
                      THEN true_position
                      ELSE IF Within(ReadTs(true_position, u), timestamp)
                           THEN true_position ELSE 0
       ELSE IF Within(ReadTs(true_position, u), timestamp)
            THEN true_position ELSE 0

\* The positions of timestamps that a call reads: timestamps[current_file]
\* (line 70), timestamps[middle - (current_file - 1)] in the loop (line 85,
\* an int expression), then timestamps[true_position - 1] and
\* timestamps[true_position] (lines 93-109).
RECURSIVE BinarySearchReads(_, _, _, _)
BinarySearchReads(left, right, timestamp, u) ==
  IF left < right
  THEN LET middle == U16((left + right) \div 2)
           p == middle - (current_file - 1)
       IN {p} \cup (IF ReadTs(p, u) < timestamp
                    THEN BinarySearchReads(U16(middle + 1), right, timestamp, u)
                    ELSE BinarySearchReads(left, middle, timestamp, u))
  ELSE {}

IndexReads(timestamp, u) ==
  IF timestamps.null THEN {}
  ELSE IF ReadTs(current_file, u) = 0 /\ current_file = 1 THEN {current_file}
  ELSE
    LET unwrapped == ReadTs(current_file, u) = 0
        left0  == IF unwrapped THEN 1 ELSE current_file
        right0 == IF unwrapped THEN U16(current_file - 1)
                  ELSE U16(current_file + hk_timestamp_array_size - 1)
        left   == BinarySearch(left0, right0, timestamp, u)
        true_position == U16(left - (current_file - 1))
    IN {current_file}
       \cup BinarySearchReads(left0, right0, timestamp, u)
       \cup (IF true_position > 1
             THEN IF Within(timestamp, ReadTs(true_position - 1, u))
                  THEN {true_position - 1}
                  ELSE {true_position - 1, true_position}
             ELSE {true_position})

\* Every slot id a call can return, over the values its undefined reads yield.
FileIds(timestamp) ==
  { get_file_id_from_timestamp(timestamp, u) : u \in UndefVals(timestamp) }

\* Result dynamic_timestamp_array_handler(uint16_t num_items); realloc_ok is
\* whether realloc returns memory.  realloc is asked for
\* sizeof(*timestamps * (num_items + 1)) bytes, the size of one uint32_t
\* whatever num_items is: cells 1..num_items lie past the allocation.  The
\* model keeps in them what the code stores there.
dynamic_timestamp_array_handler(num_items, realloc_ok) ==
  IF num_items = 0
  THEN [ret |-> SUCCESS, ts |-> timestamps, size |-> 0]
  ELSE IF num_items # hk_timestamp_array_size
  THEN IF ~realloc_ok
       THEN [ret |-> FAILURE, ts |-> timestamps, size |-> hk_timestamp_array_size]
       ELSE [ret |-> SUCCESS,
             ts |-> [null |-> FALSE,
                     cell |-> [i \in Slots |->
                                 IF i > hk_timestamp_array_size /\ i <= num_items
                                 THEN 0 ELSE timestamps.cell[i]]],
             size |-> num_items]
  ELSE [ret |-> SUCCESS, ts |-> timestamps, size |-> hk_timestamp_array_size]

\* ------------------------------------------------------------ file access
\* Found_file exists(const char *filename)
exists(slot) == slot \in Slots /\ files[slot].exists

\* Result write_hk_to_file(filename, all_hk_data): fopen "wb" fails
\* (open_fail), or an fwrite stops short (short_write: "if(fwrite == 0)"
\* compares the function's address, so the short write goes unreported), or
\* the record is written whole.
write_hk_to_file(slot, rec, env) ==
  IF env = "open_fail" THEN [ret |-> FAILURE, files |-> files]
  ELSE IF env = "short_write"
       THEN [ret |-> SUCCESS, files |-> [files EXCEPT ![slot] = Garbage]]
       ELSE [ret |-> SUCCESS, files |-> [files EXCEPT ![slot] = rec]]

\* Result read_hk_from_file(filename, all_hk_data)
read_hk_from_file(slot) ==
  IF ~exists(slot) THEN [ret |-> FAILURE, rec |-> NoFile]
  ELSE [ret |-> SUCCESS, rec |-> files[slot]]

\* Result load_historic_hk_data(uint16_t file_num, all_hk_data): the file
\* name is built from current_file; file_num is not read.
load_historic_hk_data(file_num, malloc_ok) ==
  IF ~malloc_ok THEN [ret |-> FAILURE, rec |-> NoFile]
  ELSE read_hk_from_file(current_file)

\* ------------------------------------------------------------ write path
\* ++current_file; if(current_file > MAX_FILES) current_file = 1;
next_file(cf) == IF U16(cf + 1) > MAX_FILES THEN 1 ELSE U16(cf + 1)

\* populate_failed with the cursor advanced before the write is checked.
populate_failed_advanced ==
  [cf |-> next_file(current_file), ts |-> timestamps,
   size |-> hk_timestamp_array_size, lock |-> "held"]

\* The shared state populate_and_store_hk_data leaves behind when it
\* returns FAILURE ("failed to malloc", "Housekeeping data lost"): both
\* returns come before the index update, the cursor advance and
\* prv_give_lock.
populate_failed ==
  [cf |-> current_file, ts |-> timestamps, size |-> hk_timestamp_array_size,
   lock |-> "held"]

\* The index update and cursor advance after write_hk_to_file succeeded.
populate_stored(t, realloc_ok) ==
  LET h == dynamic_timestamp_array_handler(MAX_FILES, realloc_ok)
  IN [cf |-> next_file(current_file),
      ts |-> IF h.ret = SUCCESS
             THEN [h.ts EXCEPT !.cell[current_file] = t]
             ELSE timestamps,
      size |-> h.size,
      lock |-> "free"]

WriteEnvs == {"ok", "malloc_fail", "open_fail", "short_write", "realloc_fail"}

\* Result populate_and_store_hk_data(void): env is what the allocator and
\* the file system do during the call.  time(NULL) reads now; the periodic
\* caller makes its next call one period later.
populate_and_store_hk_data(env) ==
  /\ ~halted
  /\ f_count_lock = "free"
  /\ now <= MaxClock
  /\ now' = now + Cadence
  /\ Fault(env # "ok")
  /\ LET t == now
         payload == Snapshot(t)
         rec == Record(t, current_file, payload)
         w == write_hk_to_file(current_file, rec, env)
         failed == env = "malloc_fail" \/ w.ret = FAILURE
         post == IF failed THEN populate_failed
                 ELSE populate_stored(t, env # "realloc_fail")
     IN /\ files' = IF env = "malloc_fail" THEN files ELSE w.files
        /\ current_file' = post.cf
        /\ timestamps' = post.ts
        /\ hk_timestamp_array_size' = post.size
        /\ f_count_lock' = post.lock
        /\ last' = [NoCall EXCEPT !.op = "write", !.a1 = payload,
                                  !.ret = IF failed THEN FAILURE ELSE SUCCESS,
                                  !.env = env, !.slot = current_file,
                                  !.rec = rec]
  /\ UNCHANGED <<MAX_FILES, halted, pages, resized, tasks>>

\* ------------------------------------------------------- capacity manager
\* cleanup_files with the loop stopping one short: for (i = 1; i < old_max; i++).
cleanup_files_short(old_max, new_max, rmfail) ==
  [ret |-> IF \E i \in 1..old_max - 1 : exists(i) /\ i \notin rmfail /\ i > new_max
           THEN FAILURE ELSE SUCCESS,
   files |-> [i \in Slots |->
                IF i < old_max /\ exists(i) /\ i \notin rmfail
                THEN NoFile ELSE files[i]]]

\* cleanup_files removing only the files past the new capacity.
cleanup_files_past_new_max(old_max, new_max, rmfail) ==
  [ret |-> IF \E i \in 1..old_max : exists(i) /\ i \notin rmfail /\ i > new_max
           THEN FAILURE ELSE SUCCESS,
   files |-> [i \in Slots |->
                IF i <= old_max /\ i > new_max /\ exists(i) /\ i \notin rmfail
                THEN NoFile ELSE files[i]]]

\* The cleanup loop of set_max_files: for (i = 1; i <= old_max; i++), every
\* file that exists is removed; rmfail are the slots whose remove() fails.
\* "!remove(filename) && i > new_max" holds when the file was removed and
\* its slot is past the new capacity.
cleanup_files(old_max, new_max, rmfail) ==
  [ret |-> IF \E i \in 1..old_max : exists(i) /\ i \notin rmfail /\ i > new_max
           THEN FAILURE ELSE SUCCESS,
   files |-> [i \in Slots |->
                IF i <= old_max /\ exists(i) /\ i \notin rmfail
                THEN NoFile ELSE files[i]]]

\* Result set_max_files(uint16_t new_max)
set_max_files(new_max, env, rmfail) ==
  IF new_max < 1
  THEN [ret |-> FAILURE, max |-> MAX_FILES, cf |-> current_file, files |-> files,
        locks |-> FALSE]
  ELSE LET old_max == MAX_FILES
           c == cleanup_files(old_max, new_max, rmfail)
       IN IF old_max < new_max
          THEN [ret |-> SUCCESS, max |-> new_max, cf |-> 1, files |-> files,
                locks |-> TRUE]
          ELSE IF env = "malloc_fail"
          THEN [ret |-> FAILURE, max |-> new_max, cf |-> 1, files |-> files,
                locks |-> TRUE]
          ELSE [ret |-> c.ret, max |-> new_max, cf |-> 1, files |-> c.files,
                locks |-> TRUE]

\* hk_service_app, case SET_MAX_FILES: new_max_files is the decoded 2-byte
\* capacity; the reply carries status -1 or 0 and the call returns SATR_OK.
SetMaxFiles(new_max, env, rmfail) ==
  /\ ~halted
  /\ Fault(env # "ok" \/ rmfail # {})
  /\ LET r == set_max_files(new_max, env, rmfail)
     IN /\ r.locks => f_count_lock = "free"
        /\ MAX_FILES' = r.max
        /\ current_file' = r.cf
        /\ files' = r.files
        /\ last' = [NoCall EXCEPT !.op = "set_max_files", !.a1 = new_max,
                                  !.a2 = MAX_FILES,
                                  !.ret = r.ret,
                                  !.status = IF r.ret # SUCCESS THEN -1 ELSE 0,
                                  !.sat = "SATR_OK", !.env = env,
                                  !.rmfail = rmfail]
  /\ resized' = (resized \/ new_max >= 1)
  /\ UNCHANGED <<timestamps, hk_timestamp_array_size, f_count_lock, now, halted,
                 pages, tasks>>

\* hk_service_app, case GET_MAX_FILES
GetMaxFiles ==
  /\ ~halted
  /\ last' = [NoCall EXCEPT !.op = "get_max_files", !.a1 = MAX_FILES,
                            !.status = 0, !.sat = "SATR_OK"]
  /\ UNCHANGED <<store, f_count_lock, now, halted, faults, pages, resized, tasks>>

\* The default case ending the task instead of returning to the loop.
IllegalSubservice_fatal ==
  /\ ~halted
  /\ halted' = TRUE
  /\ last' = [NoCall EXCEPT !.op = "illegal",
                            !.sat = "SATR_PKT_ILLEGAL_SUBSERVICE"]
  /\ UNCHANGED <<store, f_count_lock, now, faults, pages, resized, tasks>>

\* hk_service_app, default case
IllegalSubservice ==
  /\ ~halted
  /\ last' = [NoCall EXCEPT !.op = "illegal",
                            !.sat = "SATR_PKT_ILLEGAL_SUBSERVICE"]
  /\ UNCHANGED <<store, f_count_lock, now, halted, faults, pages, resized, tasks>>

\* ------------------------------------------------------ retrieval engine
\* Result convert_hk_endianness(All_systems_housekeeping* hk): every field
\* goes from host to network byte order.
convert_hk_endianness(rec) == [rec EXCEPT !.order = "network"]

\* The start of the page: the lookup under the lock, then, after the lock
\* is given back, "if (locked_before_id == 0 || locked_before_id >
\* locked_max) locked_before_id = current_file".
page_start(before_id, before_time, u) ==
  LET locked_max == MAX_FILES
      locked_before_id == IF before_time # 0
                          THEN get_file_id_from_timestamp(before_time, u)
                          ELSE before_id
  IN IF locked_before_id = 0 \/ locked_before_id > locked_max
     THEN current_file ELSE locked_before_id

\* "if (limit > locked_max) limit = locked_max"
page_limit(limit) == IF limit > MAX_FILES THEN MAX_FILES ELSE limit

\* What the buffer behind all_hk_data holds after a successful load.  The
\* pointer is initialised with {0}: fread, the byte-order conversion and
\* memcpy all go through a null pointer.  ub is what the platform does with
\* that: "readback" (address 0 is memory, the record arrives), "garbage"
\* (the stores are dropped, the packet is filled from whatever is there),
\* or "fault" (the task is stopped).
PageUBs == {"readback", "garbage", "fault"}
page_buffer(rec, ub) == IF ub = "readback" THEN rec ELSE Garbage

\* while (limit > 0) { ... }: c holds locked_max, ub, and the step and kind
\* of the one environment failure of the call (failstep 0: none; "malloc":
\* the file name buffer of the load; "send": csp_send returns 0).  why is
\* the return the walk left by: "load" (line 515), "send" (line 556), "fault"
\* (the task stopped in the step), "none" (line 562).
RECURSIVE page_walk(_, _, _, _, _)
page_walk(limit, locked_before_id, out, ids, c) ==
  IF limit = 0
  THEN [ret |-> SUCCESS, out |-> out, ids |-> ids, halted |-> FALSE,
        why |-> "none"]
  ELSE
    LET d == U16(locked_before_id - 1)
        id == IF d = 0 THEN c.locked_max ELSE d
        step == Len(ids) + 1
        l == load_historic_hk_data(id, ~(c.failkind = "malloc" /\ c.failstep = step))
    IN IF l.ret # SUCCESS
       THEN [ret |-> FAILURE, out |-> out, ids |-> Append(ids, id), halted |-> FALSE,
             why |-> "load"]
       ELSE IF c.ub = "fault"
       THEN [ret |-> "NONE", out |-> out, ids |-> Append(ids, id), halted |-> TRUE,
             why |-> "fault"]
       ELSE IF c.failkind = "send" /\ c.failstep = step
       THEN [ret |-> FAILURE, out |-> out, ids |-> Append(ids, id), halted |-> FALSE,
             why |-> "send"]
       ELSE page_walk(limit - 1, id,
                      Append(out, convert_hk_endianness(page_buffer(l.rec, c.ub))),
                      Append(ids, id), c)

\* fetch_historic_hk_and_transmit without the test for limit 0 and with the
\* loop testing at its end: do { ... } while (--limit > 0).
fetch_do_while(limit, before_id, before_time, u, ub, failstep, failkind) ==
  page_walk(IF page_limit(limit) = 0 THEN 1 ELSE page_limit(limit),
            page_start(before_id, before_time, u), <<>>, <<>>,
            [locked_max |-> MAX_FILES, ub |-> ub, failstep |-> failstep,
             failkind |-> failkind])

\* fetch_historic_hk_and_transmit returning SUCCESS where it returns FAILURE.
fetch_unchecked(limit, before_id, before_time, u, ub, failstep, failkind) ==
  LET r == page_walk(page_limit(limit), page_start(before_id, before_time, u),
                     <<>>, <<>>,
                     [locked_max |-> MAX_FILES, ub |-> ub, failstep |-> failstep,
                      failkind |-> failkind])
  IN [r EXCEPT !.ret = IF r.ret = FAILURE THEN SUCCESS ELSE r.ret]

\* Result fetch_historic_hk_and_transmit(conn, limit, before_id, before_time)
fetch_historic_hk_and_transmit(limit, before_id, before_time, u, ub, failstep, failkind) ==
  IF limit <= MAX_FILES /\ limit = 0
  THEN [ret |-> SUCCESS, out |-> <<>>, ids |-> <<>>, halted |-> FALSE,
        why |-> "none"]
  ELSE page_walk(page_limit(limit), page_start(before_id, before_time, u),
                 <<>>, <<>>,
                 [locked_max |-> MAX_FILES, ub |-> ub, failstep |-> failstep,
                  failkind |-> failkind])

\* hk_service_app, case GET_HK: limit, before_id and before_time are the
\* values the dispatcher hands to fetch_historic_hk_and_transmit.
GetHK(limit, before_id, before_time, u, ub, failstep, failkind) ==
  /\ ~halted
  /\ f_count_lock = "free"
  /\ pages < MaxPages
  /\ pages' = pages + 1
  /\ Fault(failstep # 0)
  /\ LET r == fetch_historic_hk_and_transmit(limit, before_id, before_time, u,
                                             ub, failstep, failkind)
     IN /\ halted' = r.halted
        /\ last' = [NoCall EXCEPT !.op = "get_hk", !.a1 = limit, !.a2 = before_id,
                                  !.a3 = before_time, !.ret = r.ret,
                                  !.sat = IF r.halted THEN "NONE"
                                          ELSE IF r.ret # SUCCESS THEN "SATR_ERROR"
                                          ELSE "SATR_OK",
                                  !.env = IF failstep # 0 THEN failkind ELSE "ok",
                                  !.out = r.out, !.ids = r.ids, !.ub = ub,
                                  !.why = r.why]
  /\ UNCHANGED <<store, f_count_lock, now, resized, tasks>>

\* ------------------------------------------------------ request decoding
\* A GET_HK request as it arrives: pkt[k] is packet->data[k] for the byte
\* offsets 1..PktLen that follow the subservice byte packet->data[0].
PktLen == 8
ByteVals == {0, 1}
Packets == [1..PktLen -> ByteVals]

\* The offset of the first byte of a request's fields in packet->data.
IN_DATA_BYTE == 1

\* packet->data16[k]: data16 is the uint16_t view of the same bytes as data,
\* so element k is the two bytes at offsets 2k and 2k + 1, read in the byte
\* order of the host the service is built for.
HostOrders == {"big", "little"}
data16(pkt, k, host) ==
  IF host = "big" THEN pkt[2 * k] * 256 + pkt[2 * k + 1]
  ELSE pkt[2 * k] + 256 * pkt[2 * k + 1]

\* hk_service_app, case GET_HK, lines 620-622:
\*   limit = (uint16_t)packet->data16[IN_DATA_BYTE];
\*   before_id = (uint16_t)packet->data16[IN_DATA_BYTE + 1];
\*   before_time = (uint32_t)packet->data16[IN_DATA_BYTE + 2];
\* each a single uint16_t element, the last one widened to 32 bits.
decode_get_hk(pkt, host) ==
  [limit |-> U16(data16(pkt, IN_DATA_BYTE, host)),
   before_id |-> U16(data16(pkt, IN_DATA_BYTE + 1, host)),
   before_time |-> data16(pkt, IN_DATA_BYTE + 2, host)]

\* hk_service_app, case GET_HK, for a request that arrives as a packet: the
\* three arguments are decoded and handed to fetch_historic_hk_and_transmit.
GetHKPacket(pkt, host, u, ub, failstep, failkind) ==
  /\ ~halted
  /\ f_count_lock = "free"
  /\ pages < MaxPages
  /\ pages' = pages + 1
  /\ Fault(failstep # 0)
  /\ LET d == decode_get_hk(pkt, host)
         r == fetch_historic_hk_and_transmit(d.limit, d.before_id, d.before_time,
                                             u, ub, failstep, failkind)
     IN /\ halted' = r.halted
        /\ last' = [NoCall EXCEPT !.op = "get_hk", !.a1 = d.limit,
                                  !.a2 = d.before_id, !.a3 = d.before_time,
                                  !.ret = r.ret,
                                  !.sat = IF r.halted THEN "NONE"
                                          ELSE IF r.ret # SUCCESS THEN "SATR_ERROR"
                                          ELSE "SATR_OK",
                                  !.env = IF failstep # 0 THEN failkind ELSE "ok",
                                  !.out = r.out, !.ids = r.ids, !.ub = ub,
                                  !.why = r.why, !.pkt = pkt, !.host = host]
  /\ UNCHANGED <<store, f_count_lock, now, resized, tasks>>

\* The requests of the model: every limit and before_id up to one past the
\* largest capacity with no before_time, and two before_time values with
\* before_id 0 or 1.
BeforeTimes == {StartTime + Cadence + 5, StartTime + 2 * Cadence + 5}
HistoryRequests ==
  { <<l, b, 0>> : l \in 0..MaxCap + 1, b \in 0..MaxCap + 1 }
  \cup { <<l, b, t>> : l \in 0..MaxCap + 1, b \in {0, 1}, t \in BeforeTimes }

\* --------------------------------------------------------- specification
\* The service after start-up: no file, no index, the cursor at 1.  The
\* source starts with MAX_FILES = 500; the model starts with any capacity
\* of 1..MaxCap.
Init ==
  /\ MAX_FILES \in 1..MaxCap
  /\ current_file = 1
  /\ timestamps = [null |-> TRUE, cell |-> [i \in Slots |-> 0]]
  /\ hk_timestamp_array_size = 0
  /\ files = [i \in Slots |-> NoFile]
  /\ f_count_lock = "free"
  /\ now = StartTime
  /\ halted = FALSE
  /\ faults = 0
  /\ pages = 0
  /\ resized = FALSE
  /\ last = NoCall
  /\ pc = [k \in Tasks |-> "idle"]
  /\ loc = [k \in Tasks |-> NoLocals]
  /\ sem = "uncreated"

\* The record store and the capacity manager alone.
NextStore ==
  \/ \E env \in WriteEnvs : populate_and_store_hk_data(env)
  \/ \E new_max \in 0..MaxCap, env \in {"ok", "malloc_fail"} :
        \E rmfail \in SUBSET {i \in 1..MAX_FILES : exists(i)} :
           SetMaxFiles(new_max, env, rmfail)

SpecStore == Init /\ [][NextStore]_vars

\* The whole service: the periodic writer and the request dispatcher.
Next ==
  \/ \E env \in WriteEnvs : populate_and_store_hk_data(env)
  \/ \E new_max \in 0..MaxCap, env \in {"ok", "malloc_fail"} :
        \E rmfail \in SUBSET {i \in 1..MAX_FILES : exists(i)} :
           SetMaxFiles(new_max, env, rmfail)
  \/ GetMaxFiles
  \/ IllegalSubservice
  \/ \E req \in HistoryRequests :
        \E u \in IF req[3] = 0 THEN {0} ELSE UndefVals(req[3]),
           ub \in IF req[1] = 0 \/ ~exists(current_file) THEN {"readback"} ELSE PageUBs,
           failstep \in IF faults < MaxFaults THEN 0..page_limit(req[1]) ELSE {0} :
          \E failkind \in IF failstep = 0 THEN {"malloc"} ELSE {"malloc", "send"} :
             GetHK(req[1], req[2], req[3], u, ub, failstep, failkind)

Spec == Init /\ [][Next]_vars

\* The periodic writer and the GET_HK requests, each request arriving as the
\* bytes of its packet.
NextDecode ==
  \/ populate_and_store_hk_data("ok")
  \/ /\ pages < MaxPages
     /\ \E pkt \in Packets, host \in HostOrders :
        LET d == decode_get_hk(pkt, host)
        IN \E u \in IF d.before_time = 0 THEN {0} ELSE UndefVals(d.before_time),
              ub \in IF d.limit = 0 \/ ~exists(current_file) THEN {"readback"}
                     ELSE PageUBs,
              failstep \in IF faults < MaxFaults THEN 0..page_limit(d.limit) ELSE {0} :
             \E failkind \in IF failstep = 0 THEN {"malloc"} ELSE {"malloc", "send"} :
                GetHKPacket(pkt, host, u, ub, failstep, failkind)

SpecDecode == Init /\ [][NextDecode]_vars

\* ------------------------------------------------------ concurrent callers
\* The same functions, called from several tasks and split at the points
\* where another task can run: a step is the code between two such points.
\* Nothing fails in these runs, before_time is 0, and the run holds at most
\* one set_max_files call and one page.

\* prv_get_count_lock returns &f_count_lock, the address of the handle, as
\* the handle, and prv_get_lock/prv_give_lock pass it to xSemaphoreTake and
\* xSemaphoreGive: the kernel works on the bytes at that address, not on the
\* mutex xSemaphoreCreateMutex made.  What those bytes make it do is
\* undefined; the outcomes of the model are "mutex" (take waits while
\* another task holds the lock, as the code intends) and "open" (take
\* returns at once, whoever holds it).  A take that never returns adds no
\* state.  The outcome is fixed by the first take of a run.
LockOutcomes == {"mutex", "open"}

prv_get_lock(kind) ==
  /\ kind \in (IF sem = "uncreated" THEN LockOutcomes ELSE {sem})
  /\ sem' = kind
  /\ IF kind = "mutex"
     THEN f_count_lock = "free" /\ f_count_lock' = "held"
     ELSE UNCHANGED f_count_lock

prv_give_lock ==
  /\ f_count_lock' = IF sem = "mutex" THEN "free" ELSE f_count_lock
  /\ UNCHANGED sem

Goto(k, label, l) ==
  /\ pc' = [pc EXCEPT ![k] = label]
  /\ loc' = [loc EXCEPT ![k] = l]

\* populate_and_store_hk_data, lines 300-307: the snapshot is collected and
\* stamped with time(NULL) before the lock is asked for.  The two writers
\* run the same code: of two idle writers "w1" is the one that starts.
populate_stamp(k) ==
  /\ ~halted /\ pc[k] = "idle"
  /\ now < StartTime + MaxConcWrites * Cadence
  /\ k = "w2" => pc["w1"] # "idle"
  /\ now' = now + Cadence
  /\ Goto(k, "take", [NoLocals EXCEPT !.t = now])
  /\ UNCHANGED <<store, f_count_lock, halted, faults, pages, resized, last, sem>>

\* lines 308-311: prv_get_lock(lock)
populate_take(k, kind) ==
  /\ pc[k] = "take"
  /\ prv_get_lock(kind)
  /\ Goto(k, "persist", loc[k])
  /\ UNCHANGED <<store, now, halted, faults, pages, resized, last>>

\* lines 312-328: dataPosition = current_file, the file of current_file is
\* written.
populate_persist(k) ==
  /\ pc[k] = "persist"
  /\ files' = write_hk_to_file(current_file,
                               Record(loc[k].t, current_file, Snapshot(loc[k].t)),
                               "ok").files
  /\ Goto(k, "index", [loc[k] EXCEPT !.slot = current_file, !.cap = MAX_FILES])
  /\ UNCHANGED <<MAX_FILES, current_file, timestamps, hk_timestamp_array_size,
                 f_count_lock, now, halted, faults, pages, resized, last, sem>>

\* lines 331-335: dynamic_timestamp_array_handler(MAX_FILES) and
\* timestamps[current_file] = UNIXtimestamp
populate_index(k) ==
  /\ pc[k] = "index"
  /\ LET post == populate_stored(loc[k].t, TRUE)
     IN /\ timestamps' = post.ts
        /\ hk_timestamp_array_size' = post.size
  /\ Goto(k, "advance", loc[k])
  /\ UNCHANGED <<MAX_FILES, current_file, files, f_count_lock, now, halted,
                 faults, pages, resized, last, sem>>

\* lines 337-342: the cursor advance and prv_give_lock(lock)
populate_advance(k) ==
  /\ pc[k] = "advance"
  /\ current_file' = next_file(current_file)
  /\ prv_give_lock
  /\ Goto(k, "idle", NoLocals)
  /\ UNCHANGED <<MAX_FILES, timestamps, hk_timestamp_array_size, files, now,
                 halted, faults, pages, resized, last>>

\* set_max_files, lines 395-399, for new_max >= 1: prv_get_lock(lock)
set_max_take(new_max, kind) ==
  /\ ~halted /\ pc["r"] = "idle" /\ ~resized
  /\ prv_get_lock(kind)
  /\ Goto("r", "swap", [NoLocals EXCEPT !.new_max = new_max])
  /\ UNCHANGED <<store, now, halted, faults, pages, resized, last>>

\* lines 404-405: old_max = MAX_FILES; MAX_FILES = new_max
set_max_swap ==
  /\ pc["r"] = "swap"
  /\ MAX_FILES' = loc["r"].new_max
  /\ Goto("r", "reset", [loc["r"] EXCEPT !.old_max = MAX_FILES])
  /\ UNCHANGED <<current_file, timestamps, hk_timestamp_array_size, files,
                 f_count_lock, now, halted, faults, pages, resized, last, sem>>

\* lines 406-410: current_file = 1, prv_give_lock(lock), and the return when
\* the capacity grew
set_max_reset ==
  /\ pc["r"] = "reset"
  /\ current_file' = 1
  /\ prv_give_lock
  /\ resized' = TRUE
  /\ IF loc["r"].old_max < loc["r"].new_max
     THEN Goto("r", "idle", NoLocals)
     ELSE Goto("r", "cleanup", [loc["r"] EXCEPT !.i = 1])
  /\ UNCHANGED <<MAX_FILES, timestamps, hk_timestamp_array_size, files, now,
                 halted, faults, pages, last>>

\* lines 423-431, one turn of the loop: the file of slot i is removed if it
\* exists.  The lock is not held.
set_max_cleanup ==
  /\ pc["r"] = "cleanup"
  /\ LET i == loc["r"].i
     IN /\ files' = IF exists(i) THEN [files EXCEPT ![i] = NoFile] ELSE files
        /\ IF i >= loc["r"].old_max
           THEN Goto("r", "idle", NoLocals)
           ELSE Goto("r", "cleanup", [loc["r"] EXCEPT !.i = i + 1])
  /\ UNCHANGED <<MAX_FILES, current_file, timestamps, hk_timestamp_array_size,
                 f_count_lock, now, halted, faults, pages, resized, last, sem>>

\* fetch_historic_hk_and_transmit, lines 483-485: prv_get_lock(lock)
fetch_take(limit, before_id, kind) ==
  /\ ~halted /\ pc["f"] = "idle"
  /\ pages < MaxPages
  /\ pages' = pages + 1
  /\ prv_get_lock(kind)
  /\ Goto("f", "lookup", [NoLocals EXCEPT !.limit = limit,
                                          !.locked_before_id = before_id])
  /\ UNCHANGED <<store, now, halted, faults, resized, last>>

\* lines 486-492: locked_max = MAX_FILES, locked_before_id = before_id
\* (before_time is 0), prv_give_lock(lock)
fetch_lookup ==
  /\ pc["f"] = "lookup"
  /\ prv_give_lock
  /\ Goto("f", "start", [loc["f"] EXCEPT !.locked_max = MAX_FILES])
  /\ UNCHANGED <<store, now, halted, faults, pages, resized, last>>

\* lines 495-501, after the lock was given back: the fallback to
\* current_file and the clamp of limit
fetch_start ==
  /\ pc["f"] = "start"
  /\ LET l == loc["f"]
     IN Goto("f", "load",
             [l EXCEPT !.locked_before_id =
                          IF l.locked_before_id = 0 \/ l.locked_before_id > l.locked_max
                          THEN current_file ELSE l.locked_before_id,
                       !.limit = IF l.limit > l.locked_max THEN l.locked_max
                                 ELSE l.limit])
  /\ UNCHANGED <<store, f_count_lock, now, halted, faults, pages, resized, last, sem>>

\* lines 507-560, one turn of the loop: ids are the file_num values handed
\* to load_historic_hk_data.
fetch_load ==
  /\ pc["f"] = "load"
  /\ LET l == loc["f"]
         d == U16(l.locked_before_id - 1)
         id == IF d = 0 THEN l.locked_max ELSE d
         r == load_historic_hk_data(id, TRUE)
         m == [l EXCEPT !.locked_before_id = id, !.limit = l.limit - 1,
                        !.ids = Append(l.ids, id)]
     IN IF r.ret # SUCCESS \/ m.limit = 0
        THEN Goto("f", "done", m)
        ELSE Goto("f", "load", m)
  /\ UNCHANGED <<store, f_count_lock, now, halted, faults, pages, resized, last, sem>>

\* The requests of the concurrent runs.
ConcLimits == {2}
ConcBeforeIds == 0..1

NextConc ==
  \/ \E k \in Writers : populate_stamp(k)
  \/ \E k \in Writers, kind \in LockOutcomes : populate_take(k, kind)
  \/ \E k \in Writers : populate_persist(k)
  \/ \E k \in Writers : populate_index(k)
  \/ \E k \in Writers : populate_advance(k)
  \/ \E new_max \in 1..MaxCap, kind \in LockOutcomes : set_max_take(new_max, kind)
  \/ set_max_swap
  \/ set_max_reset
  \/ set_max_cleanup
  \/ \E limit \in ConcLimits, before_id \in ConcBeforeIds, kind \in LockOutcomes :
        fetch_take(limit, before_id, kind)
  \/ fetch_lookup
  \/ fetch_start
  \/ fetch_load

SpecConc == Init /\ [][NextConc]_vars

\* ------------------------------------------------- cursor at full width
\* MAX_FILES and current_file are uint16_t, and set_max_files accepts every
\* new_max of 1..65535.  Here the two are followed alone, over the
\* capacities 1..MaxCap and the MaxCap largest ones, from a cursor that the
\* writes since the last set_max_files have brought to within CursorWindow
\* of the capacity; the index and the files of such a store are left out.
CursorCaps == (1..MaxCap) \cup ((TwoTo16 - MaxCap)..(TwoTo16 - 1))

InitCursor ==
  /\ MAX_FILES \in CursorCaps
  /\ current_file \in {c \in 1..(TwoTo16 - 1) :
                         c <= MAX_FILES /\ c >= MAX_FILES - CursorWindow}
  /\ timestamps = [null |-> TRUE, cell |-> [i \in Slots |-> 0]]
  /\ hk_timestamp_array_size = 0
  /\ files = [i \in Slots |-> NoFile]
  /\ f_count_lock = "free"
  /\ now = StartTime
  /\ halted = FALSE
  /\ faults = 0
  /\ pages = 0
  /\ resized = FALSE
  /\ last = NoCall
  /\ pc = [k \in Tasks |-> "idle"]
  /\ loc = [k \in Tasks |-> NoLocals]
  /\ sem = "uncreated"

\* populate_and_store_hk_data returning SUCCESS, lines 337-341:
\* ++current_file; if(current_file > MAX_FILES) current_file = 1;
advance_cursor ==
  /\ current_file' = next_file(current_file)
  /\ last' = [NoCall EXCEPT !.op = "write", !.ret = SUCCESS, !.slot = current_file]
  /\ UNCHANGED <<MAX_FILES, timestamps, hk_timestamp_array_size, files,
                 f_count_lock, now, halted, faults, pages, resized, tasks>>

\* set_max_files, lines 405-406: MAX_FILES = new_max; current_file = 1;
reset_cursor(new_max) ==
  /\ MAX_FILES' = new_max
  /\ current_file' = 1
  /\ last' = [NoCall EXCEPT !.op = "set_max_files", !.a1 = new_max,
                            !.a2 = MAX_FILES, !.ret = SUCCESS]
  /\ UNCHANGED <<timestamps, hk_timestamp_array_size, files, f_count_lock, now,
                 halted, faults, pages, resized, tasks>>

NextCursor ==
  \/ advance_cursor
  \/ \E new_max \in CursorCaps : reset_cursor(new_max)

SpecCursor == InitCursor /\ [][NextCursor]_vars

\* The tasks that are between taking the lock and giving it back.
InCritical ==
  {k \in Writers : pc[k] \in {"persist", "index", "advance"}}
  \cup {k \in {"r"} : pc[k] \in {"swap", "reset"}}
  \cup {k \in {"f"} : pc[k] = "lookup"}

\* ------------------------------------------------------------------ claims
\* The timestamps the index holds, by slot.
Indexed(s) == ~timestamps.null /\ s \in 1..hk_timestamp_array_size
              /\ timestamps.cell[s] # 0

Dist(a, b) == IF a >= b THEN a - b ELSE b - a

\* Slot s holds the one indexed timestamp nearest to t.
NearestUnique(s, t) ==
  \A q \in Slots \ {s} :
     Indexed(q) => Dist(timestamps.cell[q], t) > Dist(timestamps.cell[s], t)

\* C1: after successful writes one period apart and no resize, for every
\* timestamp ts the index holds in slot s and every target t within 15 s of
\* ts whose nearest indexed timestamp is ts alone,
\* get_file_id_from_timestamp(t) returns s.
C1_NearestReturnsSlot ==
  (~resized /\ faults = 0) =>
     \A s \in Slots : Indexed(s) =>
        \A t \in (timestamps.cell[s] - threshold)..(timestamps.cell[s] + threshold) :
           NearestUnique(s, t) => FileIds(t) = {s}

\* C2: once every slot has been written (no resize, no failure), the page
\* GET_HK(limit = capacity, before_id = 0, before_time = 0) emits capacity
\* records, the k-th being the record of the k-th most recent write.  It
\* is stated for the platform on which the page's buffer behaves as memory.
RECURSIVE BackFrom(_, _)
BackFrom(slot, k) ==
  IF k = 0 THEN slot
  ELSE BackFrom(IF slot = 1 THEN MAX_FILES ELSE slot - 1, k - 1)

C2_FullPageMostRecentFirst ==
  ( /\ last.op = "get_hk" /\ last.a1 = MAX_FILES /\ last.a2 = 0 /\ last.a3 = 0
    /\ last.ub = "readback" /\ ~resized /\ faults = 0
    /\ \A s \in 1..MAX_FILES : exists(s) )
  => /\ last.ret = SUCCESS
     /\ Len(last.out) = MAX_FILES
     /\ \A k \in 1..MAX_FILES :
          last.out[k] = convert_hk_endianness(files[BackFrom(current_file, k)])

\* C3: after a write that returned SUCCESS and landed in slot k, a load of
\* slot k succeeds and returns the record persisted there: the payload
\* collected by the write, with dataPosition k.
C3_LoadAfterWrite ==
  (last.op = "write" /\ last.ret = SUCCESS /\ faults = 0) =>
     LET r == load_historic_hk_data(last.slot, TRUE)
     IN /\ r.ret = SUCCESS
        /\ r.rec.payload = last.a1
        /\ r.rec.pos = last.slot

\* C4: whenever no write, resize or lookup is in progress (between two calls)
\* the store lock is free, so that the next call can take it.
C4_LockFreeBetweenCalls == f_count_lock = "free"

\* C5: a write that returns FAILURE because the file could not be opened
\* for writing leaves current_file, MAX_FILES and the timestamp array as
\* they were.
C5_FailedWriteFrame ==
  [][ (last'.op = "write" /\ last'.ret = FAILURE /\ last'.env = "open_fail")
      => /\ current_file' = current_file
         /\ MAX_FILES' = MAX_FILES
         /\ timestamps' = timestamps
         /\ hk_timestamp_array_size' = hk_timestamp_array_size ]_vars

\* A failed write met a store that already held a record and an index.
C5_Witness ==
  /\ last.op = "write" /\ last.ret = FAILURE /\ last.env = "open_fail"
  /\ current_file = 2 /\ Indexed(1) /\ exists(1)

C7_GrowKeepsRecords ==
  [][ (last'.op = "set_max_files" /\ last'.a1 >= MAX_FILES /\ faults' = 0)
      => /\ files' = files
         /\ MAX_FILES' = last'.a1
         /\ current_file' = 1 ]_vars

\* C8: when the file name buffer is allocated and every remove() succeeds,
\* set_max_files(new_max) returns FAILURE exactly when new_max < 1, and then
\* changes nothing; the SET_MAX_FILES reply carries status 0 for every
\* new_max >= 1 and -1 for new_max = 0.
C8_ResizeFailsOnlyBelowOne ==
  [][ (last'.op = "set_max_files" /\ last'.env = "ok" /\ last'.rmfail = {})
      => /\ (last'.ret = FAILURE) <=> (last'.a1 < 1)
         /\ last'.a1 < 1 => UNCHANGED store
         /\ last'.status = IF last'.a1 >= 1 THEN 0 ELSE -1 ]_vars

\* C9: load_historic_hk_data(slot) returns SUCCESS exactly for the slots
\* whose file exists.
C9_LoadFailsIffNoRecord ==
  faults = 0 =>
     \A slot \in Slots :
        (load_historic_hk_data(slot, TRUE).ret = SUCCESS) <=> exists(slot)

\* C10: a GET_HK page with limit 0 returns SUCCESS, emits nothing, loads
\* nothing, changes neither MAX_FILES, current_file, the index nor the
\* files, and leaves the lock free, whatever before_id and before_time are.
C10_ZeroLimitPage ==
  [][ (last'.op = "get_hk" /\ last'.a1 = 0)
      => /\ last'.ret = SUCCESS /\ last'.sat = "SATR_OK"
         /\ last'.out = <<>> /\ last'.ids = <<>>
         /\ UNCHANGED store
         /\ f_count_lock' = "free" /\ ~halted' ]_vars

\* A zero-limit page by timestamp on a store that was resized and then
\* written again.
C10_Witness ==
  /\ last.op = "get_hk" /\ last.a1 = 0 /\ last.a3 # 0 /\ last.ret = SUCCESS
  /\ resized /\ exists(1) /\ Indexed(1)

\* C11: with capacity 3 and four successful writes one period apart from
\* StartTime (100, 130, 160, 190), the index is [190, 130, 160] with
\* current_file = 2, and get_file_id_from_timestamp(165) returns slot 3.
C11_NearestOf165 ==
  ( /\ MAX_FILES = 3 /\ ~resized /\ faults = 0 /\ current_file = 2
    /\ Indexed(1) /\ Indexed(2) /\ Indexed(3)
    /\ timestamps.cell[1] = StartTime + 3 * Cadence
    /\ timestamps.cell[2] = StartTime + Cadence
    /\ timestamps.cell[3] = StartTime + 2 * Cadence )
  => FileIds(StartTime + 2 * Cadence + 5) = {3}

\* The store of the scenario: four writes into three slots.
C11_Witness ==
  /\ MAX_FILES = 3 /\ ~resized /\ faults = 0 /\ current_file = 2
  /\ hk_timestamp_array_size = 3
  /\ timestamps.cell = <<190, 130, 160>>
  /\ files[1].ts = 190 /\ files[3].ts = 160
  /\ FileIds(165) = {3}

\* C12: a request with an unknown subservice returns
\* SATR_PKT_ILLEGAL_SUBSERVICE, changes neither MAX_FILES, current_file,
\* the index nor the files, does not touch the lock, and leaves the service
\* loop running; a page that returned FAILURE and a rejected capacity
\* (new_max < 1) leave the service loop running as well.
C12_BadRequestNotFatal ==
  [][ /\ last'.op = "illegal"
         => /\ last'.sat = "SATR_PKT_ILLEGAL_SUBSERVICE"
            /\ UNCHANGED store
            /\ f_count_lock' = f_count_lock
            /\ ~halted'
      /\ ( \/ last'.op = "get_hk" /\ last'.ret = FAILURE
           \/ last'.op = "set_max_files" /\ last'.a1 < 1 )
         => ~halted' ]_vars

\* An unknown subservice arrived while the store held a record and the lock
\* was still taken by a failed write.
C12_Witness ==
  /\ last.op = "illegal" /\ last.sat = "SATR_PKT_ILLEGAL_SUBSERVICE"
  /\ ~halted /\ exists(1) /\ f_count_lock = "held"

\* C13: under every interleaving of the concurrent callers at most one of
\* them is between taking the lock and giving it back, and every write
\* persists into a slot of 1..MAX_FILES, for the MAX_FILES it reads while it
\* holds the lock.
C13_MutualExclusion ==
  /\ Cardinality(InCritical) <= 1
  /\ \A k \in Writers :
        pc[k] \in {"index", "advance"} => loc[k].slot \in 1..loc[k].cap

\* C14: in every state 1 <= current_file <= MAX_FILES, and a successful
\* write at cursor c leaves the cursor at c + 1 if c < MAX_FILES and at 1 if
\* c = MAX_FILES, for every capacity of 1..65535.
C14_CursorInRange ==
  [][ /\ 1 <= current_file' /\ current_file' <= MAX_FILES'
      /\ (last'.op = "write" /\ last'.ret = SUCCESS /\ 1 <= current_file)
         => current_file' = IF current_file < MAX_FILES THEN current_file + 1
                            ELSE 1 ]_vars

\* C15: in every state between calls reached by writes and set_max_files
\* calls in which nothing failed, once the index is allocated, its size is
\* MAX_FILES and for every slot s of 1..MAX_FILES timestamps[s] is the
\* timestamp of the record in the file of slot s, and 0 if there is no file.
C15_IndexAgreesWithStore ==
  (faults = 0 /\ ~timestamps.null)
  => /\ hk_timestamp_array_size = MAX_FILES
     /\ \A s \in 1..MAX_FILES :
           timestamps.cell[s] = IF exists(s) THEN files[s].ts ELSE 0

\* The slot k places after the cursor, circularly.
Circ(k) == ((current_file - 1 + k) % MAX_FILES) + 1

\* C16: with no set_max_files call since the start, in every state in which
\* every slot of 1..MAX_FILES has been written and no write is between its
\* file and its cursor advance, the timestamps of the index read from
\* current_file circularly through the MAX_FILES slots never decrease; this
\* under every interleaving of the write calls.  It is stated for the lock
\* working as a mutex.
C16_CircularOrder ==
  ( /\ sem # "open" /\ faults = 0
    /\ ~resized /\ pc["r"] = "idle"
    /\ \A k \in Writers : pc[k] \in {"idle", "take"}
    /\ ~timestamps.null /\ hk_timestamp_array_size = MAX_FILES
    /\ \A s \in 1..MAX_FILES : exists(s) /\ Indexed(s) )
  => \A k \in 0..(MAX_FILES - 2) :
        timestamps.cell[Circ(k)] <= timestamps.cell[Circ(k + 1)]

\* The targets of the lookups checked: every collection time of a run, and
\* the times 15 and 16 seconds before and after it.
Targets == {StartTime + k * Cadence + d : k \in 0..MaxTicks, d \in {-16, -15, 0, 15, 16}}

\* The slots a lookup may return: 1..current_file - 1 while the slot at the
\* cursor is still empty, every slot of 1..MAX_FILES once it is not.
ValidWindow ==
  IF timestamps.null THEN {}
  ELSE IF ~Indexed(current_file) THEN 1..(current_file - 1)
  ELSE 1..MAX_FILES

\* C17: in every state and for every target t, get_file_id_from_timestamp(t)
\* returns 0 or a slot of the valid window whose timestamp is within 15 s
\* of t; it returns 0 on a store without a record; and every position of
\* timestamps it reads lies in 1..hk_timestamp_array_size.
C17_NearestSound ==
  \A t \in Targets : \A u \in UndefVals(t) :
     LET r == get_file_id_from_timestamp(t, u)
     IN /\ r = 0 \/ (r \in ValidWindow /\ Dist(timestamps.cell[r], t) <= threshold)
        /\ (\A s \in Slots : ~exists(s)) => r = 0
        /\ IndexReads(t, u) \subseteq 1..hk_timestamp_array_size

\* C18: in a run without any failure, a GET_HK page with limit > 0 in which
\* every load and every send succeeded (it returned SUCCESS; the buffer
\* behaves as memory) emitted
\* min(limit, MAX_FILES) records, and the k-th record it loaded is the one of
\* slot start - k, counted circularly with MAX_FILES after 1, where start is
\* before_id if before_time = 0 and before_id is in 1..MAX_FILES, the
\* result of get_file_id_from_timestamp(before_time) if before_time # 0 and
\* that is in 1..MAX_FILES, and current_file otherwise.
C18_PageWalk ==
  ( /\ last.op = "get_hk" /\ last.a1 > 0
    /\ last.ret = SUCCESS /\ last.ub = "readback" /\ faults = 0 )
  => /\ Len(last.out) = page_limit(last.a1)
     /\ Len(last.ids) = page_limit(last.a1)
     /\ \E u \in UndefVals(last.a3) :
           \A k \in 1..Len(last.ids) :
              /\ last.ids[k] = BackFrom(page_start(last.a2, last.a3, u), k)
              /\ last.out[k].pos = last.ids[k]

\* C19: when the load of step k of a GET_HK page fails, the page returns
\* FAILURE, the records emitted are the k - 1 of the steps before it, the
\* dispatcher returns SATR_ERROR, and MAX_FILES, current_file, the index and
\* the files are as before the page.
C19_PageAbort ==
  [][ (last'.op = "get_hk" /\ last'.why = "load")
      => /\ last'.ret = FAILURE
         /\ Len(last'.ids) >= 1 /\ Len(last'.ids) <= page_limit(last'.a1)
         /\ Len(last'.out) = Len(last'.ids) - 1
         /\ last'.sat = "SATR_ERROR"
         /\ UNCHANGED store ]_vars

\* The load of the second step failed after the first record was emitted.
C19_Witness ==
  /\ last.op = "get_hk" /\ last.why = "load" /\ last.ret = FAILURE
  /\ Len(last.ids) = 2 /\ Len(last.out) = 1
  /\ last.sat = "SATR_ERROR"

\* C20: under every interleaving of a page with writes and a set_max_files
\* call, every id the page hands to load_historic_hk_data lies in
\* 1..locked_max, the MAX_FILES it read while it held the lock.  It is
\* stated for the lock working as a mutex.
C20_LoadedIdsInLockedRange ==
  (sem # "open" /\ pc["f"] \in {"load", "done"})
  => \A j \in 1..Len(loc["f"].ids) :
        loc["f"].ids[j] >= 1 /\ loc["f"].ids[j] <= loc["f"].locked_max

\* C21: set_max_files(new_max) with 1 <= new_max < MAX_FILES leaves the file
\* of every slot in 1..new_max as it was, and every file it removes is one
\* of a slot in (new_max, old MAX_FILES].
C21_ShrinkKeepsInRange ==
  [][ (last'.op = "set_max_files" /\ last'.a1 >= 1 /\ last'.a1 < MAX_FILES)
      => /\ \A s \in 1..last'.a1 : files'[s] = files[s]
         /\ \A s \in Slots :
               files'[s] # files[s] => (s > last'.a1 /\ s <= MAX_FILES) ]_vars

\* C21 amended: set_max_files(new_max) with 1 <= new_max < MAX_FILES changes
\* no file but by removing it and removes none of a slot past the old
\* MAX_FILES; when the file name buffer is allocated and every remove()
\* succeeds, no file of a slot in 1..old MAX_FILES is left, those of
\* 1..new_max included.
C21_ShrinkDeletesAll ==
  [][ (last'.op = "set_max_files" /\ last'.a1 >= 1 /\ last'.a1 < MAX_FILES)
      => /\ \A s \in Slots :
               files'[s] # files[s] => (s <= MAX_FILES /\ files'[s] = NoFile)
         /\ (last'.env = "ok" /\ last'.rmfail = {})
               => \A s \in 1..MAX_FILES : ~files'[s].exists ]_vars

\* A shrink from 2 to 1 that removed the written files of slots 1 and 2 and
\* left the file of slot 3, which is past the old capacity.
C21_Witness ==
  /\ last.op = "set_max_files" /\ last.a1 = 1 /\ last.a2 = 2
  /\ last.env = "ok" /\ last.rmfail = {} /\ last.ret = FAILURE
  /\ ~timestamps.null /\ timestamps.cell[1] # 0
  /\ ~exists(1) /\ ~exists(2) /\ exists(3)

\* C22: a write that returns SUCCESS with current_file = c beforehand leaves
\* in the file of slot c the whole record it built, with dataPosition c,
\* sets timestamps[c] to that record's timestamp, moves current_file to the
\* next slot (1 after MAX_FILES), and changes no other file, no other
\* existing index entry of 1..MAX_FILES and not MAX_FILES.
C22_SuccessfulWriteEffect ==
  [][ (last'.op = "write" /\ last'.ret = SUCCESS)
      => LET c == current_file
         IN /\ files'[c] = last'.rec
            /\ files'[c].exists /\ ~files'[c].torn /\ files'[c].pos = c
            /\ ~timestamps'.null /\ c <= hk_timestamp_array_size'
            /\ timestamps'.cell[c] = files'[c].ts
            /\ current_file' = IF c = MAX_FILES THEN 1 ELSE c + 1
            /\ \A s \in Slots \ {c} : files'[s] = files[s]
            /\ \A s \in (1..MAX_FILES) \ {c} :
                  (~timestamps.null /\ s <= hk_timestamp_array_size)
                  => /\ s <= hk_timestamp_array_size'
                     /\ timestamps'.cell[s] = timestamps.cell[s]
            /\ MAX_FILES' = MAX_FILES ]_vars

\* C23: for every GET_HK request, the before_time hk_service_app hands to
\* fetch_historic_hk_and_transmit is the 32-bit value of the four bytes of
\* the request's beforeTimestamp field in network byte order, and limit and
\* before_id are the values of the two 2-byte fields before it.
C23_RequestDecoded ==
  (last.op = "get_hk" /\ last.pkt # <<>>)
  => /\ last.a3 = ((last.pkt[IN_DATA_BYTE + 4] * 256
                     + last.pkt[IN_DATA_BYTE + 5]) * 256
                    + last.pkt[IN_DATA_BYTE + 6]) * 256
                   + last.pkt[IN_DATA_BYTE + 7]
     /\ last.a1 = last.pkt[IN_DATA_BYTE] * 256 + last.pkt[IN_DATA_BYTE + 1]
     /\ last.a2 = last.pkt[IN_DATA_BYTE + 2] * 256 + last.pkt[IN_DATA_BYTE + 3]

====
